---- MODULE Spec2Model ----
(***************************************************************************)
(* Model of the self-tuning memcpy dispatcher of                           *)
(* utils/memcpy-bench/memcpy-bench.cpp: VariantWithStatistics and          *)
(* MultipleVariantsWithStatistics (call / explore).                        *)
(*                                                                         *)
(* Every std::atomic operation of the source is one step of the thread     *)
(* that performs it; thread-local computation is folded into the atomic    *)
(* step that precedes it.  Steps of different threads interleave           *)
(* (sequentially consistent view of the relaxed atomics, which is what the *)
(* x86 build of this x86-only file gives for the operations used here).    *)
(*                                                                         *)
(* Numbers.  size_t counters are TLA+ integers.  The hash is computed on   *)
(* 64 bits with 8-bit limbs, the cycle counter on 32 bits with 16-bit      *)
(* halves.  A double is modelled by the real number it approximates:       *)
(* score() values are kept symbolically as the loaded (time, bytes, count) *)
(* and compared exactly with arbitrary-precision naturals; 0/0 is NaN and  *)
(* x/0 is +inf as in IEEE-754.                                             *)
(***************************************************************************)
EXTENDS Integers, Sequences, FiniteSets, TLC

(***************************************************************************)
(* Program constants.                                                      *)
(***************************************************************************)
num_cells == 16
probability_distribution_buckets == 256
num_explorations_before_optimize == 256
\* double best_score = 1e9
InitialBestScore == 1000000000
\* memcpy_selftuned hands sizes >= 30000 to variants.call
SelfTunedThreshold == 30000

(***************************************************************************)
(* Bounds of the model.                                                    *)
(***************************************************************************)
\* calls started in a single-threaded bounded run
MaxCallsSeq == 700
\* calls started in a two-threaded bounded run
MaxCallsConc == 259
\* calls other threads may start while one thread is inside a call
MaxOvertake == 1
\* cap of the history counter of reoptimizations
MaxReopts == 3
MaxCallsOverlap == 682
MaxField == 9
MaxDecays == 4
MaxThresholdSteps == 16

Threads == {1, 2}
Cells == 0 .. (num_cells - 1)

(***************************************************************************)
(* Arbitrary-precision naturals: little-endian sequences of digits in base *)
(* BigBase without leading zero digits (<<>> is 0).  Used only to compare  *)
(* scores exactly.                                                         *)
(***************************************************************************)
BigBase == 10 ^ 4

\* The value of a singleton.  { e(x) : x \in {v} } evaluates v once and
\* binds x to the value; a LET definition or an operator argument is
\* evaluated anew at every use when TLC evaluates ENABLED.
Only(S) == CHOOSE x \in S : TRUE

RECURSIVE BigOf(_)
BigOf(n) ==
    Only({ IF m = 0 THEN <<>> ELSE <<m % BigBase>> \o BigOf(m \div BigBase) : m \in {n} })

RECURSIVE BigTrim(_)
BigTrim(a) ==
    Only({ IF x = <<>> THEN <<>>
           ELSE IF x[Len(x)] = 0 THEN BigTrim(SubSeq(x, 1, Len(x) - 1)) ELSE x :
             x \in {a} })

BigDigit(a, k) == IF k <= Len(a) THEN a[k] ELSE 0

RECURSIVE BigAddFrom(_, _, _, _)
BigAddFrom(a, b, k, carry) ==
    IF k > Len(a) /\ k > Len(b)
    THEN (IF carry = 0 THEN <<>> ELSE <<carry>>)
    ELSE Only({ <<s % BigBase>> \o BigAddFrom(a, b, k + 1, s \div BigBase) :
                  s \in {BigDigit(a, k) + BigDigit(b, k) + carry} })

BigAdd(a, b) == Only({ BigAddFrom(x, y, 1, 0) : x \in {a}, y \in {b} })

\* a - b for a >= b
RECURSIVE BigSubFrom(_, _, _, _)
BigSubFrom(a, b, k, borrow) ==
    IF k > Len(a) THEN <<>>
    ELSE Only({ IF s < 0 THEN <<s + BigBase>> \o BigSubFrom(a, b, k + 1, 1)
                         ELSE <<s>> \o BigSubFrom(a, b, k + 1, 0) :
                  s \in {BigDigit(a, k) - BigDigit(b, k) - borrow} })

BigSub(a, b) == Only({ BigTrim(BigSubFrom(x, y, 1, 0)) : x \in {a}, y \in {b} })

\* a * d for a digit d
RECURSIVE BigMulDigitFrom(_, _, _, _)
BigMulDigitFrom(a, d, k, carry) ==
    IF k > Len(a)
    THEN (IF carry = 0 THEN <<>> ELSE <<carry>>)
    ELSE Only({ <<s % BigBase>> \o BigMulDigitFrom(a, d, k + 1, s \div BigBase) :
                  s \in {a[k] * d + carry} })

RECURSIVE BigMulFrom(_, _)
BigMulFrom(a, b) ==
    IF b = <<>> \/ a = <<>> THEN <<>>
    ELSE Only({ BigAdd(BigTrim(BigMulDigitFrom(a, d, 1, 0)),
                       IF rest = <<>> THEN <<>> ELSE <<0>> \o rest) :
                  d \in {b[1]}, rest \in {BigMulFrom(a, Tail(b))} })

BigMul(a, b) == Only({ BigMulFrom(x, y) : x \in {a}, y \in {b} })

RECURSIVE BigLessFrom(_, _, _)
BigLessFrom(a, b, k) ==
    \E j \in {k} :
        IF j = 0 THEN FALSE
        ELSE IF a[j] # b[j] THEN a[j] < b[j]
        ELSE BigLessFrom(a, b, j - 1)

BigLess(a, b) ==
    \E x \in {a}, y \in {b} :
        IF Len(x) # Len(y) THEN Len(x) < Len(y) ELSE BigLessFrom(x, y, Len(x))

BigSq(a) == Only({ BigMulFrom(x, x) : x \in {a} })

(***************************************************************************)
(* 64-bit unsigned arithmetic on little-endian sequences of eight 8-bit    *)
(* limbs, for `hash *= 0xff51afd7ed558ccdULL; hash ^= hash >> 33`.         *)
(***************************************************************************)
RECURSIVE Limbs(_, _)
Limbs(n, k) ==
    IF k = 0 THEN <<>>
    ELSE Only({ <<m % 256>> \o Limbs(m \div 256, k - 1) : m \in {n} })

\* 0xff51afd7ed558ccd, least significant byte first
HashMultiplier == <<205, 140, 85, 237, 215, 175, 81, 255>>

RECURSIVE ConvSum(_, _, _, _)
ConvSum(a, b, k, i) ==
    IF i > k THEN 0 ELSE a[i] * b[k + 1 - i] + ConvSum(a, b, k, i + 1)

\* a * b modulo 2^64
RECURSIVE Mul64From(_, _, _, _)
Mul64From(a, b, k, carry) ==
    IF k > 8 THEN <<>>
    ELSE Only({ <<s % 256>> \o Mul64From(a, b, k + 1, s \div 256) :
                  s \in {ConvSum(a, b, k, 1) + carry} })

Mul64(a, b) == Only({ Mul64From(x, y, 1, 0) : x \in {a}, y \in {b} })

\* bits lo .. lo+3 of a 64-bit value
Nibble(h, lo) ==
    LET byte == h[(lo \div 8) + 1]
        next == IF (lo \div 8) + 2 <= 8 THEN h[(lo \div 8) + 2] ELSE 0
        wide == byte + 256 * next
        RECURSIVE Pow2(_)
        Pow2(n) == IF n = 0 THEN 1 ELSE 2 * Pow2(n - 1)
    IN  (wide \div Pow2(lo % 8)) % 16

RECURSIVE Xor(_, _, _)
Xor(x, y, bits) ==
    IF bits = 0 THEN 0
    ELSE Only({ ((a + b) % 2) + 2 * Xor(a \div 2, b \div 2, bits - 1) :
                  a \in {x}, b \in {y} })

\* (hash ^ (hash >> 33)) % num_cells for hash = n * 0xff51afd7ed558ccd
\* (num_cells = 16: the low four bits of hash xor bits 33..36 of hash)
HashIndexMutModulus(n) ==
    Only({ Xor(Nibble(hash, 0), Nibble(hash, 33), 4) % (num_cells - 1) :
             hash \in {Mul64(Limbs(n, 8), HashMultiplier)} })

HashIndex(n) ==
    Only({ Xor(Nibble(hash, 0), Nibble(hash, 33), 4) % num_cells :
             hash \in {Mul64(Limbs(n, 8), HashMultiplier)} })

(***************************************************************************)
(* UInt32 values of rdtsc() as pairs <<high 16 bits, low 16 bits>>.  A     *)
(* true tick count is <<wraps of 2^32, high, low>>.                        *)
(***************************************************************************)
Half == 2 ^ 16

TicksOf(n) == <<0, n \div Half, n % Half>>

\* the counter value read d ticks after the value v was read
Add32(v, d) ==
    LET lo == v[2] + d[3]
        hi == v[1] + d[2] + (lo \div Half)
    IN  <<hi % Half, lo % Half>>

\* UInt32 time = time2 - time1
\* (the mutant: a difference that stops at 0)
Sub32MutSaturates(a, b) ==
    IF a[1] < b[1] \/ (a[1] = b[1] /\ a[2] < b[2]) THEN <<0, 0>>
    ELSE LET lo == a[2] - b[2]
             hi == a[1] - b[1] - (IF lo < 0 THEN 1 ELSE 0)
         IN  <<hi % Half, lo % Half>>

Sub32(a, b) ==
    LET lo == a[2] - b[2]
        hi == a[1] - b[1] - (IF lo < 0 THEN 1 ELSE 0)
    IN  <<hi % Half, lo % Half>>

\* time < size for a size below 2^31
U32Less(v, n) == v[1] < 32768 /\ v[1] * Half + v[2] < n

U32Int(v) == v[1] * Half + v[2]

(***************************************************************************)
(* VariantWithStatistics::score().  The value is kept as the three loaded  *)
(* fields and its IEEE class.                                              *)
(***************************************************************************)
ScoreKind(t, b, c) ==
    IF b = 0
    THEN (IF t = 0 THEN "nan" ELSE "inf")
    ELSE IF t = 0
         THEN (IF c = 0 THEN "nan" ELSE "num")
         ELSE (IF c = 0 THEN "inf" ELSE "num")

score(t, b, c) == [kind |-> ScoreKind(t, b, c), t |-> t, b |-> b, c |-> c]

\* the literal 1e9
ConstScore(v) == [kind |-> "const", t |-> v, b |-> 1, c |-> 0]

\* (t/b)(1 + 1/sqrt(c)) < v
NumLessConst(x, v) ==
    \E t \in {BigOf(x.t)}, vb \in {BigMul(BigOf(v), BigOf(x.b))} :
        IF ~BigLess(t, vb) THEN FALSE
        ELSE BigLess(BigSq(t), BigMul(BigSq(BigSub(vb, t)), BigOf(x.c)))

\* (t1/b1)(1 + 1/sqrt(c1)) < (t2/b2)(1 + 1/sqrt(c2)), by cross-multiplying
\* and squaring twice with the signs tracked
NumLessNum(x, y) ==
    \E A \in {BigMul(BigOf(x.t), BigOf(y.b))}, B \in {BigMul(BigOf(y.t), BigOf(x.b))},
       c1 \in {BigOf(x.c)}, c2 \in {BigOf(y.c)} :
    \E P1 \in {BigMul(BigSq(B), c1)}, P2 \in {BigMul(BigSq(A), c2)},
       D \in {IF BigLess(A, B) THEN BigSub(B, A) ELSE BigSub(A, B)} :
    \E Q \in {BigMul(BigSq(D), BigMul(c1, c2))}, S \in {BigAdd(P1, P2)} :
        IF ~BigLess(A, B)
        THEN IF ~BigLess(P2, P1) THEN FALSE
             ELSE IF ~BigLess(Q, S) THEN FALSE
             ELSE BigLess(BigMul(BigOf(4), BigMul(P1, P2)), BigSq(BigSub(S, Q)))
        ELSE IF ~BigLess(P1, P2) THEN TRUE
             ELSE IF ~BigLess(Q, S) THEN TRUE
             ELSE BigLess(BigSq(BigSub(S, Q)), BigMul(BigOf(4), BigMul(P1, P2)))

\* score < best_score on doubles: false when either side is NaN
ScoreLess(x, y) ==
    IF x.kind = "nan" \/ y.kind = "nan" THEN FALSE
    ELSE IF x.kind = "inf" THEN FALSE
    ELSE IF y.kind = "inf" THEN TRUE
    ELSE IF y.kind = "const" THEN NumLessConst(x, y.t)
    ELSE NumLessNum(x, y)

\* VariantWithStatistics::smooth(), one field
SmoothMutKeepsZero(v) == v \div 2
SmoothMutRoundsUp(v) == 1 + (v + 1) \div 2
Smooth(v) == 1 + v \div 2

\* VariantWithStatistics::smooth(), the three fields
smooth(tr) ==
    [time |-> Smooth(tr.time), bytes |-> Smooth(tr.bytes), count |-> Smooth(tr.count)]

(***************************************************************************)
(* The new exploration_probability_threshold:                              *)
(*   p = 1.0 - threshold / 256;  p /= 1.5;                                 *)
(*   min<size_t>(256 - 1, 256 * (1.0 - p))                                 *)
(* p is the rational pn/pd; the conversion to size_t truncates.            *)
(***************************************************************************)
Min(a, b) == IF a < b THEN a ELSE b

\* the conversion to size_t rounding to the nearest
NewThresholdMutRounds(threshold) ==
    LET pn == 2 * (probability_distribution_buckets - threshold)
        pd == 3 * probability_distribution_buckets
    IN  Min(probability_distribution_buckets - 1,
            (2 * probability_distribution_buckets * (pd - pn) + pd) \div (2 * pd))

\* p *= 1.5 in place of p /= 1.5
NewThresholdMutGrows(threshold) ==
    LET pn == 3 * (probability_distribution_buckets - threshold)
        pd == 2 * probability_distribution_buckets
    IN  Min(probability_distribution_buckets - 1,
            (probability_distribution_buckets * (pd - pn)) \div pd)

\* no exploration left after the first reoptimization
NewThresholdMutNoDecay(threshold) == probability_distribution_buckets

\* the threshold is stored back as it was loaded
NewThresholdMutStays(threshold) == threshold

NewThreshold(threshold) ==
    LET pn == 2 * (probability_distribution_buckets - threshold)
        pd == 3 * probability_distribution_buckets
    IN  Min(probability_distribution_buckets - 1,
            (probability_distribution_buckets * (pd - pn)) \div pd)

(***************************************************************************)
(* The registry: MultipleVariantsWithStatistics::variants, in order.       *)
(* func and kind are set by the constructor and never written again.       *)
(***************************************************************************)
NullFunc == "nullptr"

RegistryFuncs ==
    << "memcpy", "memcpy_erms", "memcpy_fast_sse", "memcpy_fast_avx",
       "__memcpy_avx_unaligned", "__memcpy_avx_unaligned_erms",
       "__memcpy_ssse3", "__memcpy_ssse3_back", "memcpy_trivial",
       "memcpy_medium_avx_forward2", "memcpySSE2", "memcpySSE2Unrolled2",
       "memcpySSE2Unrolled4", "memcpySSE2Unrolled8",
       "memcpy_medium_sse_forward", "memcpy_medium_avx_forward" >>

RegistryKinds == <<1, 4, 10, 11, 25, 26, 23, 24, 2, 31, 6, 7, 8, 9, 32, 33>>

variants_func(i) == RegistryFuncs[i + 1]
variants_kind(i) == RegistryKinds[i + 1]

\* What a kernel returns.  memcpy_erms returns its dst after `rep movsb`,
\* whose output operand "=D"(dst) is the advanced pointer; the other kernels
\* return the destination they were given.
KernelReturn(f, dst, src, size) == IF f = "memcpy_erms" THEN dst + size ELSE dst

(***************************************************************************)
(* The machine: how many ticks the kernel of each registry cell takes for  *)
(* one byte, as a fraction num/den.  It is fixed for a run.                *)
(***************************************************************************)
Rate(n, d) == [num |-> n, den |-> d]

\* kernel A (1 cycle per byte) in cell p, kernel B (4 cycles per byte) elsewhere
RatesAB(p) == [i \in Cells |-> IF i = p THEN Rate(1, 1) ELSE Rate(4, 1)]

\* every kernel below one cycle per byte, cell 11 the fastest
RatesFast == [i \in Cells |-> Rate(1 + ((i + 5) % num_cells), 32)]

\* even cells below one cycle per byte (cell 6 the fastest), odd cells above
RatesMixed ==
    [i \in Cells |-> IF i % 2 = 0 THEN Rate(1 + ((i + 10) % num_cells), 40)
                                  ELSE Rate(2, 1)]

\* every kernel below one cycle per byte, those of cells 5 and 9 equally the
\* fastest (both cells are chosen 17 times in a window)
RatesTied == [i \in Cells |-> IF i \in {5, 9} THEN Rate(1, 4) ELSE Rate(1, 2)]

\* every kernel at 19 ticks per 20 bytes: every sample is accepted
RatesSlow == [i \in Cells |-> Rate(19, 20)]

\* odd cells below one cycle per byte (cell 1 the fastest), even cells above:
\* no sample of entry 0 is accepted
RatesOdd == [i \in Cells |-> IF i % 2 = 1 THEN Rate(1 + i, 40) ELSE Rate(2, 1)]

\* three kernels at 2, 5 and 10 ticks per byte: the first in cell 0, the second
\* in cell 1, the third in every other cell
RatesThree ==
    [i \in Cells |-> IF i = 0 THEN Rate(2, 1) ELSE IF i = 1 THEN Rate(5, 1) ELSE Rate(10, 1)]

\* true number of ticks the kernel of each cell takes for size bytes
TicksAt(rates, size) ==
    [i \in Cells |-> TicksOf((size * rates[i].num) \div rates[i].den)]

\* the same, with the threads that run the kernels of cells 2 and 5 preempted
\* for about 2^32 ticks
TicksStalled(rates, size) ==
    [TicksAt(rates, size) EXCEPT ![2] = <<1, 0, 0>>, ![5] = <<1, @[2], @[3]>>]

\* values rdtsc() may return at the first read
TscSamples == { <<0, 0>>, <<4660, 22136>>, <<65535, 65000>> }

Buffers == {4096, 8192}

VARIABLES
    count,                              \* call counter
    exploration_count,
    exploration_probability_threshold,
    selected_variant,
    variants,                           \* cell -> [time, bytes, count]
    cerr,                               \* kind last written to std::cerr, 0 if none
    pc,                                 \* thread -> next operation
    local,                              \* thread -> local variables of call / explore
    run,                                \* threads, call budget, rates and size of the run
    calls,                              \* history: calls started (capped)
    explored,                           \* history: explore calls started (capped)
    exploits,                           \* history: calls that chose to exploit since the last that chose to explore
    overtaken,                          \* history: calls started by others during a call
    invoked,                            \* history: kernel invocations of the current call
    reopts,                             \* history: reoptimizations started (capped)
    snap,                               \* history: trackers when the last reoptimization started
    visited,                            \* history: cells chosen since exploration_count was last 0
    tally                               \* history: decisions of call() since the threshold was stored,
                                        \* in rounds of 256: how many (n), how many to exploit (x)

vars == << count, exploration_count, exploration_probability_threshold,
           selected_variant, variants, cerr, pc, local, run, calls, explored,
           exploits, overtaken, invoked, reopts, snap, visited, tally >>

shared == << count, exploration_count, exploration_probability_threshold,
             selected_variant, variants, cerr >>

InitLocal ==
    [ dst |-> 0, src |-> 0, size |-> 0,
      current_count |-> 0, path |-> "none",
      current_exploration_count |-> 0, variant |-> 0,
      time |-> <<0, 0>>, ret |-> 0, returned |-> 0, loaded |-> 0,
      i |-> 0, best_variant |-> 0, best_score |-> ConstScore(InitialBestScore),
      score_time |-> 0, score_bytes |-> 0, score |-> score(0, 0, 0) ]

InitTracker == [time |-> 0, bytes |-> 0, count |-> 0]

\* the state after the constructors, for a run with the given inputs
InitRun(r) ==
    /\ run = r
    /\ count = 0
    /\ exploration_count = 0
    /\ exploration_probability_threshold = 0
    /\ selected_variant = "memcpy"
    /\ variants = [i \in Cells |-> InitTracker]
    /\ cerr = 0
    /\ pc = [t \in Threads |-> "idle"]
    /\ local = [t \in Threads |-> InitLocal]
    /\ calls = 0
    /\ explored = 0
    /\ exploits = 0
    /\ overtaken = [t \in Threads |-> 0]
    /\ invoked = [t \in Threads |-> <<>>]
    /\ reopts = 0
    /\ snap = [i \in Cells |-> InitTracker]
    /\ visited = {}
    /\ tally = [n |-> 0, x |-> 0]

\* coarse: the scheduler of the run switches threads inside the
\* reoptimization block only at the head of a loop iteration, and keeps a
\* thread it has suspended before the loop until another thread reaches a
\* loop head
\* (see Scheduled)
\* tsc: the values rdtsc() may return at the first read of a measurement
RunOf(threads, bounded, limit, buffers, rates, size, ticks) ==
    [ threads |-> threads, bounded |-> bounded, limit |-> limit, buffers |-> buffers,
      rates |-> rates, size |-> size, ticks |-> ticks, coarse |-> FALSE, tsc |-> TscSamples ]

\* the counter value 536 ticks before the low 32 bits wrap to 0
TscBeforeWrap == <<Half - 1, Half - 536>>

\* single-threaded runs in which every measurement starts at TscBeforeWrap, so
\* that the two reads span a wraparound (the kernels of cells 2 and 5 stalled)
WrapRuns ==
    { [ RunOf({1}, TRUE, MaxCallsSeq, Buffers, RatesFast, SelfTunedThreshold,
              TicksStalled(RatesFast, SelfTunedThreshold))
        EXCEPT !.tsc = {TscBeforeWrap} ] }

\* single-threaded runs of MaxCallsSeq calls
SeqRuns ==
    { RunOf({1}, TRUE, MaxCallsSeq, Buffers, r, s, TicksAt(r, s)) :
        r \in {RatesAB(0), RatesAB(3), RatesFast, RatesMixed, RatesTied},
        s \in {SelfTunedThreshold, 2 ^ 16} }
    \cup
    { RunOf({1}, TRUE, MaxCallsSeq, Buffers, RatesFast, SelfTunedThreshold,
            TicksStalled(RatesFast, SelfTunedThreshold)) }
    \cup
    WrapRuns

\* two-threaded runs of MaxCallsConc calls
ConcRuns ==
    { RunOf(Threads, TRUE, MaxCallsConc, Buffers, RatesMixed, SelfTunedThreshold,
            TicksAt(RatesMixed, SelfTunedThreshold)) }

\* two-threaded runs of MaxCallsOverlap calls of the three kernels, in which a
\* reoptimizing thread can be suspended at the head of a loop iteration
OverlapRuns ==
    { [ RunOf(Threads, TRUE, MaxCallsOverlap, {4096}, RatesThree, SelfTunedThreshold,
              TicksAt(RatesThree, SelfTunedThreshold))
        EXCEPT !.coarse = TRUE ] }

\* single-threaded runs without an end
LiveRuns ==
    { RunOf({1}, FALSE, MaxCallsSeq, {4096}, r, SelfTunedThreshold,
            TicksAt(r, SelfTunedThreshold)) :
        r \in {RatesMixed} }

Init == \E r \in SeqRuns : InitRun(r)

InitConc == \E r \in SeqRuns \cup ConcRuns : InitRun(r)

InitLive == \E r \in LiveRuns : InitRun(r)

InitOverlap == \E r \in SeqRuns \cup OverlapRuns : InitRun(r)

(***************************************************************************)
(* Pieces of call() and explore().                                         *)
(***************************************************************************)
\* count++.  The program reads the counter only as count % 256, and size_t
\* wraps at 2^64, a multiple of 256: a run without an end keeps the counter
\* modulo probability_distribution_buckets, a bounded run keeps it whole.
IncrementedMutLoses(n, bounded) ==
    IF n % 2 = 1 THEN n ELSE n + 1
Incremented(n, bounded) ==
    IF bounded THEN n + 1 ELSE (n + 1) % probability_distribution_buckets

\* current_count % probability_distribution_buckets < exploration_probability_threshold
IsExploitMutLeq(current_count, threshold) ==
    current_count % probability_distribution_buckets <= threshold
IsExploitMutModulus(current_count, threshold) ==
    current_count % (probability_distribution_buckets \div 2) < threshold
IsExploit(current_count, threshold) ==
    current_count % probability_distribution_buckets < threshold

\* if (time < size)
AcceptsMutLeq(time, size) == U32Less(time, size + 1)
Accepts(time, size) == U32Less(time, size)

\* if (current_exploration_count == num_explorations_before_optimize)
TriggersMutEarly(current_exploration_count) ==
    current_exploration_count = num_explorations_before_optimize - 1
Triggers(current_exploration_count) ==
    current_exploration_count = num_explorations_before_optimize

\* if (score < best_score)
\* (the mutant: a comparison that NaN wins)
BetterMutNan(sc, best) == sc.kind = "nan" \/ ScoreLess(sc, best)

BetterMutLeq(sc, best) ==
    \/ ScoreLess(sc, best)
    \/ sc.kind = "num" /\ best.kind = "num" /\ ~ScoreLess(best, sc)
Better(sc, best) == ScoreLess(sc, best)

\* selected_variant.store(variants[best_variant].func.load())
PublishedMutNull(best_variant) == NullFunc
Published(best_variant) == variants_func(best_variant)

\* return ret
ReturnedMutSource(loc) == loc.src
Returned(loc) == loc.ret

SetLocal(t, loc) == local' = [local EXCEPT ![t] = loc]
SetPc(t, p) == pc' = [pc EXCEPT ![t] = p]

Invocation(f, loc) ==
    [ func |-> f, dst |-> loc.dst, src |-> loc.src, size |-> loc.size,
      ret |-> KernelReturn(f, loc.dst, loc.src, loc.size) ]

\* a return statement of call() or explore() with the value v
ReturnWith(t, loc, v) ==
    /\ SetLocal(t, [loc EXCEPT !.returned = v])
    /\ SetPc(t, "return")

\* the end of the record block of explore(): reoptimize or return
AfterRecord(t, loc) ==
    IF Triggers(loc.current_exploration_count)
    THEN /\ SetLocal(t, loc)
         /\ SetPc(t, "thr_load")
    ELSE ReturnWith(t, loc, Returned(loc))

(***************************************************************************)
(* The scheduler.  A thread inside a call is overtaken by at most          *)
(* MaxOvertake calls of the others.  A coarse run has one more kind of     *)
(* schedule, a subset of those the threads of test() can have: a thread    *)
(* inside the reoptimization block runs from one loop head to the next     *)
(* without a switch, and a thread overtaken before its first iteration is  *)
(* suspended there, for any number of calls, until another thread is at a  *)
(* loop head.                                                              *)
(***************************************************************************)
Reoptimizing ==
    { "thr_load", "thr_store", "ec_reset", "score_time", "score_bytes", "score_count",
      "smooth_time_load", "smooth_time_store", "smooth_bytes_load", "smooth_bytes_store",
      "smooth_count_load", "smooth_count_store", "publish" }

Suspendable(t) == run.coarse /\ pc[t] = "score_time" /\ local[t].i = 0

Preemptible(t) ==
    run.coarse => pc[t] \notin Reoptimizing \ {"thr_load", "score_time", "publish"}

Suspended(t) ==
    /\ Suspendable(t)
    /\ overtaken[t] = MaxOvertake
    /\ \A u \in run.threads \ {t} : pc[u] # "score_time"

Scheduled(t) ==
    /\ ~Suspended(t)
    /\ \A u \in run.threads \ {t} : Preemptible(u)

(***************************************************************************)
(* call(): size_t current_count = count++                                  *)
(***************************************************************************)
Call(t) ==
    /\ t \in run.threads
    /\ pc[t] = "idle"
    /\ run.bounded => calls < run.limit
    /\ \A u \in run.threads \ {t} :
         pc[u] # "idle" =>
             \/ overtaken[u] < MaxOvertake
             \/ Suspendable(u)
    /\ \E dst \in run.buffers : \E src \in Buffers \ {dst} :
         SetLocal(t, [InitLocal EXCEPT !.dst = dst, !.src = src, !.size = run.size,
                                       !.current_count = count])
    /\ count' = Incremented(count, run.bounded)
    /\ SetPc(t, "decide")
    /\ calls' = Min(calls + 1, run.limit)
    /\ UNCHANGED << explored, exploits >>
    /\ overtaken' = [u \in Threads |->
                       IF u # t /\ pc[u] # "idle" THEN Min(overtaken[u] + 1, MaxOvertake)
                                                ELSE overtaken[u]]
    /\ UNCHANGED invoked
    /\ UNCHANGED << exploration_count, exploration_probability_threshold,
                    selected_variant, variants, cerr, run, reopts, snap, visited, tally >>

(***************************************************************************)
(* call(): the load of exploration_probability_threshold and the branch    *)
(***************************************************************************)
\* the tally after one more decision; a round is 256 decisions; a run
\* without an end keeps no tally
Tallied(tl, exploit, bounded) ==
    IF ~bounded THEN tl
    ELSE IF tl.n = probability_distribution_buckets
         THEN [n |-> 1, x |-> IF exploit THEN 1 ELSE 0]
         ELSE [n |-> tl.n + 1, x |-> tl.x + IF exploit THEN 1 ELSE 0]

Decide(t) ==
    /\ pc[t] = "decide"
    /\ LET exploit == IsExploit(local[t].current_count, exploration_probability_threshold)
       IN  /\ SetLocal(t, [local[t] EXCEPT !.path = IF exploit THEN "exploit" ELSE "explore"])
           /\ SetPc(t, IF exploit THEN "exploit" ELSE "explore")
           /\ exploits' = IF exploit THEN Min(exploits + 1, run.limit) ELSE 0
           /\ tally' = Tallied(tally, exploit, run.bounded)
    /\ UNCHANGED << shared, run, calls, explored, overtaken, invoked, reopts, snap, visited >>

(***************************************************************************)
(* call(): return selected_variant.load()(dst, src, size)                  *)
(***************************************************************************)
ExploitMutRecords(t) ==
    /\ pc[t] = "exploit"
    /\ LET inv == Invocation(selected_variant, local[t])
       IN  /\ invoked' = [invoked EXCEPT ![t] = Append(@, inv)]
           /\ ReturnWith(t, local[t], inv.ret)
    /\ variants' = [variants EXCEPT ![0].count = @ + 1]
    /\ UNCHANGED << count, exploration_count, exploration_probability_threshold,
                    selected_variant, cerr, run, calls, explored, exploits, overtaken, reopts, snap, visited, tally >>

Exploit(t) ==
    /\ pc[t] = "exploit"
    /\ LET inv == Invocation(selected_variant, local[t])
       IN  /\ invoked' = [invoked EXCEPT ![t] = Append(@, inv)]
           /\ ReturnWith(t, local[t], inv.ret)
    /\ UNCHANGED << shared, run, calls, explored, exploits, overtaken, reopts, snap, visited, tally >>

(***************************************************************************)
(* explore(): size_t current_exploration_count = exploration_count++, the  *)
(* hash and the choice of the variant                                      *)
(***************************************************************************)
\* the same behind a lock that a thread at the kernel holds
ExploreCountMutWaits(t) ==
    /\ pc[t] = "explore"
    /\ \A u \in Threads \ {t} : pc[u] # "measure"
    /\ SetLocal(t, [local[t] EXCEPT !.current_exploration_count = exploration_count,
                                    !.variant = HashIndex(exploration_count)])
    /\ exploration_count' = exploration_count + 1
    /\ SetPc(t, "measure")
    /\ explored' = Min(explored + 1, run.limit)
    /\ visited' = visited \cup {HashIndex(exploration_count)}
    /\ UNCHANGED << count, exploration_probability_threshold, selected_variant,
                    variants, cerr, run, calls, exploits, overtaken, invoked, reopts, snap, tally >>

\* the same with the hash of the incremented value
ExploreCountMutNew(t) ==
    /\ pc[t] = "explore"
    /\ SetLocal(t, [local[t] EXCEPT !.current_exploration_count = exploration_count,
                                    !.variant = HashIndex(exploration_count + 1)])
    /\ exploration_count' = exploration_count + 1
    /\ SetPc(t, "measure")
    /\ explored' = Min(explored + 1, run.limit)
    /\ visited' = visited \cup {HashIndex(exploration_count + 1)}
    /\ UNCHANGED << count, exploration_probability_threshold, selected_variant,
                    variants, cerr, run, calls, exploits, overtaken, invoked, reopts, snap, tally >>

ExploreCount(t) ==
    /\ pc[t] = "explore"
    /\ SetLocal(t, [local[t] EXCEPT !.current_exploration_count = exploration_count,
                                    !.variant = HashIndex(exploration_count)])
    /\ exploration_count' = exploration_count + 1
    /\ SetPc(t, "measure")
    /\ explored' = Min(explored + 1, run.limit)
    /\ visited' = visited \cup {HashIndex(exploration_count)}
    /\ UNCHANGED << count, exploration_probability_threshold, selected_variant,
                    variants, cerr, run, calls, exploits, overtaken, invoked, reopts, snap, tally >>

(***************************************************************************)
(* explore(): time1 = rdtsc(); ret = variant.func.load()(dst, src, size);  *)
(* time2 = rdtsc(); time = time2 - time1; if (time < size)                 *)
(***************************************************************************)
Measure(t) ==
    /\ pc[t] = "measure"
    /\ \E time1 \in run.tsc :
         LET loc   == local[t]
             inv   == Invocation(variants_func(loc.variant), loc)
             time2 == Add32(time1, run.ticks[loc.variant])
             time  == Sub32(time2, time1)
             next  == [loc EXCEPT !.ret = inv.ret, !.time = time]
         IN  /\ invoked' = [invoked EXCEPT ![t] = Append(@, inv)]
             /\ IF Accepts(time, loc.size)
                THEN /\ SetLocal(t, next)
                     /\ SetPc(t, "rec_count")
                ELSE AfterRecord(t, next)
    /\ UNCHANGED << shared, run, calls, explored, exploits, overtaken, reopts, snap, visited, tally >>

\* ++variant.count
\* (the mutant counts on the selected entry's neighbour instead)
RecordCountMutNeighbour(t) ==
    /\ pc[t] = "rec_count"
    /\ variants' = [variants EXCEPT ![(local[t].variant + 1) % num_cells].count = @ + 1]
    /\ SetPc(t, "rec_bytes")
    /\ UNCHANGED << count, exploration_count, exploration_probability_threshold,
                    selected_variant, cerr, local, run, calls, explored, exploits, overtaken, invoked,
                    reopts, snap, visited, tally >>

RecordCount(t) ==
    /\ pc[t] = "rec_count"
    /\ variants' = [variants EXCEPT ![local[t].variant].count = @ + 1]
    /\ SetPc(t, "rec_bytes")
    /\ UNCHANGED << count, exploration_count, exploration_probability_threshold,
                    selected_variant, cerr, local, run, calls, explored, exploits, overtaken, invoked,
                    reopts, snap, visited, tally >>

\* variant.bytes += size
RecordBytesMutSkips(t) ==
    /\ pc[t] = "rec_bytes"
    /\ SetPc(t, "rec_time")
    /\ UNCHANGED << shared, local, run, calls, explored, exploits, overtaken, invoked,
                    reopts, snap, visited, tally >>

RecordBytes(t) ==
    /\ pc[t] = "rec_bytes"
    /\ variants' = [variants EXCEPT ![local[t].variant].bytes = @ + local[t].size]
    /\ SetPc(t, "rec_time")
    /\ UNCHANGED << count, exploration_count, exploration_probability_threshold,
                    selected_variant, cerr, local, run, calls, explored, exploits, overtaken, invoked,
                    reopts, snap, visited, tally >>

\* variant.time += time, then the test of current_exploration_count
RecordTimeMutAssigns(t) ==
    /\ pc[t] = "rec_time"
    /\ variants' = [variants EXCEPT ![local[t].variant].time = U32Int(local[t].time)]
    /\ AfterRecord(t, local[t])
    /\ UNCHANGED << count, exploration_count, exploration_probability_threshold,
                    selected_variant, cerr, run, calls, explored, exploits, overtaken, invoked, reopts, snap, visited, tally >>

RecordTime(t) ==
    /\ pc[t] = "rec_time"
    /\ variants' = [variants EXCEPT ![local[t].variant].time = @ + U32Int(local[t].time)]
    /\ AfterRecord(t, local[t])
    /\ UNCHANGED << count, exploration_count, exploration_probability_threshold,
                    selected_variant, cerr, run, calls, explored, exploits, overtaken, invoked, reopts, snap, visited, tally >>

(***************************************************************************)
(* explore(), the block under                                              *)
(*   if (current_exploration_count == num_explorations_before_optimize)    *)
(***************************************************************************)
\* exploration_probability_threshold.load()
LoadThreshold(t) ==
    /\ pc[t] = "thr_load"
    /\ SetLocal(t, [local[t] EXCEPT !.loaded = exploration_probability_threshold])
    /\ SetPc(t, "thr_store")
    /\ reopts' = Min(reopts + 1, MaxReopts)
    /\ snap' = variants
    /\ UNCHANGED << shared, run, calls, explored, exploits, overtaken, invoked, visited, tally >>

\* exploration_probability_threshold.store(min(...))
StoreThreshold(t) ==
    /\ pc[t] = "thr_store"
    /\ exploration_probability_threshold' = NewThreshold(local[t].loaded)
    /\ SetPc(t, "ec_reset")
    /\ tally' = [n |-> 0, x |-> 0]
    /\ UNCHANGED << count, exploration_count, selected_variant, variants, cerr, local,
                    run, calls, explored, exploits, overtaken, invoked, reopts, snap, visited >>

\* exploration_count.store(0); best_variant = 0; best_score = 1e9; i = 0
ResetExplorationCount(t) ==
    /\ pc[t] = "ec_reset"
    /\ exploration_count' = 0
    /\ SetLocal(t, [local[t] EXCEPT !.best_variant = 0,
                                    !.best_score = ConstScore(InitialBestScore),
                                    !.i = 0])
    /\ SetPc(t, "score_time")
    /\ visited' = {}
    /\ UNCHANGED << count, exploration_probability_threshold, selected_variant, variants,
                    cerr, run, calls, explored, exploits, overtaken, invoked, reopts, snap, tally >>

\* score(): the three loads of variants[i]
ScoreLoadTime(t) ==
    /\ pc[t] = "score_time"
    /\ SetLocal(t, [local[t] EXCEPT !.score_time = variants[local[t].i].time])
    /\ SetPc(t, "score_bytes")
    /\ UNCHANGED << shared, run, calls, explored, exploits, overtaken, invoked, reopts, snap, visited, tally >>

ScoreLoadBytes(t) ==
    /\ pc[t] = "score_bytes"
    /\ SetLocal(t, [local[t] EXCEPT !.score_bytes = variants[local[t].i].bytes])
    /\ SetPc(t, "score_count")
    /\ UNCHANGED << shared, run, calls, explored, exploits, overtaken, invoked, reopts, snap, visited, tally >>

ScoreLoadCount(t) ==
    /\ pc[t] = "score_count"
    /\ SetLocal(t, [local[t] EXCEPT
                      !.score = score(local[t].score_time, local[t].score_bytes,
                                      variants[local[t].i].count)])
    /\ SetPc(t, "smooth_time_load")
    /\ UNCHANGED << shared, run, calls, explored, exploits, overtaken, invoked, reopts, snap, visited, tally >>

\* smooth(): a load and a store for each field of variants[i]
SmoothLoad(t, at, field, next) ==
    /\ pc[t] = at
    /\ SetLocal(t, [local[t] EXCEPT !.loaded = variants[local[t].i][field]])
    /\ SetPc(t, next)
    /\ UNCHANGED << shared, run, calls, explored, exploits, overtaken, invoked, reopts, snap, visited, tally >>

SmoothStore(t, at, field, next) ==
    /\ pc[t] = at
    /\ variants' = [variants EXCEPT ![local[t].i][field] = Smooth(local[t].loaded)]
    /\ SetPc(t, next)
    /\ UNCHANGED << count, exploration_count, exploration_probability_threshold,
                    selected_variant, cerr, local, run, calls, explored, exploits, overtaken, invoked,
                    reopts, snap, visited, tally >>

SmoothTimeLoad(t) == SmoothLoad(t, "smooth_time_load", "time", "smooth_time_store")
SmoothTimeStore(t) == SmoothStore(t, "smooth_time_store", "time", "smooth_bytes_load")
SmoothBytesLoad(t) == SmoothLoad(t, "smooth_bytes_load", "bytes", "smooth_bytes_store")
SmoothBytesStore(t) == SmoothStore(t, "smooth_bytes_store", "bytes", "smooth_count_load")
SmoothCountLoad(t) == SmoothLoad(t, "smooth_count_load", "count", "smooth_count_store")

\* the store of count, then `if (score < best_score)` and ++i
SmoothCountStore(t) ==
    /\ pc[t] = "smooth_count_store"
    /\ variants' = [variants EXCEPT ![local[t].i].count = Smooth(local[t].loaded)]
    /\ LET loc    == local[t]
           better == Better(loc.score, loc.best_score)
       IN  /\ SetLocal(t, [loc EXCEPT
                             !.best_score = IF better THEN loc.score ELSE @,
                             !.best_variant = IF better THEN loc.i ELSE @,
                             !.i = loc.i + 1])
           /\ SetPc(t, IF loc.i + 1 < num_cells THEN "score_time" ELSE "publish")
    /\ UNCHANGED << count, exploration_count, exploration_probability_threshold,
                    selected_variant, cerr, run, calls, explored, exploits, overtaken, invoked,
                    reopts, snap, visited, tally >>

\* selected_variant.store(...); std::cerr << kind; return ret
Publish(t) ==
    /\ pc[t] = "publish"
    /\ selected_variant' = Published(local[t].best_variant)
    /\ cerr' = variants_kind(local[t].best_variant)
    /\ ReturnWith(t, local[t], Returned(local[t]))
    /\ UNCHANGED << count, exploration_count, exploration_probability_threshold,
                    variants, run, calls, explored, exploits, overtaken, invoked, reopts, snap, visited, tally >>

\* control is back in the caller of call(): the locals of the call are gone
Return(t) ==
    /\ pc[t] = "return"
    /\ SetPc(t, "idle")
    /\ SetLocal(t, InitLocal)
    /\ invoked' = [invoked EXCEPT ![t] = <<>>]
    /\ overtaken' = [overtaken EXCEPT ![t] = 0]
    /\ UNCHANGED << shared, run, calls, explored, exploits, reopts, snap, visited, tally >>

Next ==
    \E t \in Threads :
        \/ Call(t)
        \/ Decide(t)
        \/ Exploit(t)
        \/ ExploreCount(t)
        \/ Measure(t)
        \/ RecordCount(t)
        \/ RecordBytes(t)
        \/ RecordTime(t)
        \/ LoadThreshold(t)
        \/ StoreThreshold(t)
        \/ ResetExplorationCount(t)
        \/ ScoreLoadTime(t)
        \/ ScoreLoadBytes(t)
        \/ ScoreLoadCount(t)
        \/ SmoothTimeLoad(t)
        \/ SmoothTimeStore(t)
        \/ SmoothBytesLoad(t)
        \/ SmoothBytesStore(t)
        \/ SmoothCountLoad(t)
        \/ SmoothCountStore(t)
        \/ Publish(t)
        \/ Return(t)

\* single-threaded bounded runs
Spec == Init /\ [][Next]_vars

\* bounded runs with one thread or with two
SpecConc == InitConc /\ [][Next]_vars

\* an unbounded run: a thread that can take a step eventually takes one
SpecLive == InitLive /\ [][Next]_vars /\ WF_vars(Next)

(***************************************************************************)
(* smooth() on its own: a thread that holds a reference to one tracker,    *)
(* whose fields have any values up to MaxField, and calls smooth() on it   *)
(* MaxDecays times, nothing else touching the tracker.                     *)
(***************************************************************************)
DecayInputs == [time : 0 .. MaxField, bytes : 0 .. MaxField, count : 0 .. MaxField]

InitDecay ==
    \E i \in Cells, tr \in DecayInputs :
        /\ run = RunOf({1}, TRUE, 0, Buffers, RatesFast, SelfTunedThreshold,
                       TicksAt(RatesFast, SelfTunedThreshold))
        /\ count = 0
        /\ exploration_count = 0
        /\ exploration_probability_threshold = 0
        /\ selected_variant = "memcpy"
        /\ variants = [j \in Cells |-> IF j = i THEN tr ELSE InitTracker]
        /\ cerr = 0
        /\ pc = [t \in Threads |-> IF t \in run.threads THEN "smooth" ELSE "idle"]
        /\ local = [t \in Threads |->
                      IF t \in run.threads THEN [InitLocal EXCEPT !.variant = i]
                                           ELSE InitLocal]
        /\ calls = 0
        /\ explored = 0
        /\ exploits = 0
        /\ overtaken = [t \in Threads |-> 0]
        /\ invoked = [t \in Threads |-> <<>>]
        /\ reopts = 0
        /\ snap = [j \in Cells |-> IF j = i THEN tr ELSE InitTracker]
        /\ visited = {}
        /\ tally = [n |-> 0, x |-> 0]

\* variant.smooth(); reopts counts the decays, snap keeps the first values
SmoothTracker(t) ==
    /\ pc[t] = "smooth"
    /\ reopts < MaxDecays
    /\ variants' = [variants EXCEPT ![local[t].variant] = smooth(@)]
    /\ reopts' = reopts + 1
    /\ UNCHANGED << count, exploration_count, exploration_probability_threshold,
                    selected_variant, cerr, pc, local, run, calls, explored, exploits,
                    overtaken, invoked, snap, visited, tally >>

NextDecay == \E t \in Threads : SmoothTracker(t)

SpecDecay == InitDecay /\ [][NextDecay]_vars

(***************************************************************************)
(* The threshold over many reoptimizations: a caller without an end whose  *)
(* calls are cut short after the branch of call(), and whose explore calls *)
(* may each be the one that reoptimizes; of the reoptimization only the    *)
(* threshold update is kept (nothing else writes the threshold).           *)
(***************************************************************************)
InitThreshold ==
    InitRun(RunOf({1}, FALSE, 0, {4096}, RatesFast, SelfTunedThreshold,
                  TicksAt(RatesFast, SelfTunedThreshold)))

\* the rest of a call after the branch, without a reoptimization
FinishCall(t) ==
    /\ pc[t] \in {"exploit", "explore"}
    /\ SetPc(t, "idle")
    /\ SetLocal(t, InitLocal)
    /\ UNCHANGED << shared, run, calls, explored, exploits, overtaken, invoked,
                    reopts, snap, visited, tally >>

\* an explore call that reoptimizes: the threshold load, p /= 1.5 and the
\* threshold store; reopts counts the reoptimizations
UpdateThreshold(t) ==
    /\ pc[t] = "explore"
    /\ reopts < MaxThresholdSteps
    /\ exploration_probability_threshold' = NewThreshold(exploration_probability_threshold)
    /\ reopts' = reopts + 1
    /\ SetPc(t, "idle")
    /\ SetLocal(t, InitLocal)
    /\ UNCHANGED << count, exploration_count, selected_variant, variants, cerr, run,
                    calls, explored, exploits, overtaken, invoked, snap, visited, tally >>

NextThreshold ==
    \E t \in Threads :
        \/ Call(t)
        \/ Decide(t)
        \/ FinishCall(t)
        \/ UpdateThreshold(t)

SpecThreshold == InitThreshold /\ [][NextThreshold]_vars

(***************************************************************************)
(* memcpy_selftuned(): sizes below 30000 are copied inline and return ret, *)
(* which is dst; the other sizes go to variants.call                       *)
(***************************************************************************)
\* sizes below the threshold, the largest of each branch of the inline copy
SmallSizes == {16, 128, SelfTunedThreshold - 1}

\* the sizes the callers of a run pass
SizesOf(r) == SmallSizes \cup {r.size}

\* the else branch of `else if (size < 30000)`
EntersDispatcher(size) == size >= SelfTunedThreshold

\* the same with the call counted by the dispatcher
CopyInlineMutCounts(t, size) ==
    /\ t \in run.threads
    /\ pc[t] = "idle"
    /\ \E dst \in run.buffers : \E src \in Buffers \ {dst} :
         ReturnWith(t, [InitLocal EXCEPT !.dst = dst, !.src = src, !.size = size,
                                         !.path = "inline", !.ret = dst], dst)
    /\ count' = Incremented(count, run.bounded)
    /\ UNCHANGED << exploration_count, exploration_probability_threshold,
                    selected_variant, variants, cerr, run, calls, explored,
                    exploits, overtaken, invoked, reopts, snap, visited, tally >>

CopyInline(t, size) ==
    /\ t \in run.threads
    /\ pc[t] = "idle"
    /\ \E dst \in run.buffers : \E src \in Buffers \ {dst} :
         ReturnWith(t, [InitLocal EXCEPT !.dst = dst, !.src = src, !.size = size,
                                         !.path = "inline", !.ret = dst], dst)
    /\ UNCHANGED << shared, run, calls, explored, exploits, overtaken, invoked,
                    reopts, snap, visited, tally >>

memcpy_selftuned(t) ==
    \E size \in SizesOf(run) :
        IF EntersDispatcher(size)
        THEN size = run.size /\ Call(t)
        ELSE CopyInline(t, size)

NextSelfTuned ==
    \E t \in Threads :
        \/ memcpy_selftuned(t)
        \/ Decide(t)
        \/ Exploit(t)
        \/ ExploreCount(t)
        \/ Measure(t)
        \/ RecordCount(t)
        \/ RecordBytes(t)
        \/ RecordTime(t)
        \/ LoadThreshold(t)
        \/ StoreThreshold(t)
        \/ ResetExplorationCount(t)
        \/ ScoreLoadTime(t)
        \/ ScoreLoadBytes(t)
        \/ ScoreLoadCount(t)
        \/ SmoothTimeLoad(t)
        \/ SmoothTimeStore(t)
        \/ SmoothBytesLoad(t)
        \/ SmoothBytesStore(t)
        \/ SmoothCountLoad(t)
        \/ SmoothCountStore(t)
        \/ Publish(t)
        \/ Return(t)

\* callers of memcpy_selftuned with sizes on both sides of the threshold:
\* one caller for MaxCallsSeq dispatcher calls, two for MaxCallsConc
SelfTunedRuns ==
    { RunOf({1}, TRUE, MaxCallsSeq, {4096}, RatesMixed, SelfTunedThreshold,
            TicksAt(RatesMixed, SelfTunedThreshold)),
      RunOf(Threads, TRUE, MaxCallsConc, {4096}, RatesMixed, SelfTunedThreshold,
            TicksAt(RatesMixed, SelfTunedThreshold)) }

\* two callers of MaxCallsConc calls of kernels shortly below one tick per byte
SlowRuns ==
    { RunOf(Threads, TRUE, MaxCallsConc, {4096}, RatesSlow, SelfTunedThreshold,
            TicksAt(RatesSlow, SelfTunedThreshold)) }

InitSlow == \E r \in SlowRuns : InitRun(r)

SpecSlow == InitSlow /\ [][Next]_vars

\* single-threaded runs of MaxCallsSeq calls in which no sample is accepted,
\* or none of the even cells
UnsampledRuns ==
    { RunOf({1}, TRUE, MaxCallsSeq, Buffers, r, SelfTunedThreshold,
            TicksAt(r, SelfTunedThreshold)) : r \in {RatesAB(0), RatesOdd} }

InitUnsampled == \E r \in UnsampledRuns : InitRun(r)

SpecUnsampled == InitUnsampled /\ [][Next]_vars

InitSelfTuned == \E r \in SelfTunedRuns : InitRun(r)

SpecSelfTuned == InitSelfTuned /\ [][NextSelfTuned]_vars

\* the same steps under the scheduler of the run
NextScheduled ==
    \E t \in Threads :
        \/ Scheduled(t) /\ Call(t)
        \/ Scheduled(t) /\ Decide(t)
        \/ Scheduled(t) /\ Exploit(t)
        \/ Scheduled(t) /\ ExploreCount(t)
        \/ Scheduled(t) /\ Measure(t)
        \/ Scheduled(t) /\ RecordCount(t)
        \/ Scheduled(t) /\ RecordBytes(t)
        \/ Scheduled(t) /\ RecordTime(t)
        \/ Scheduled(t) /\ LoadThreshold(t)
        \/ Scheduled(t) /\ StoreThreshold(t)
        \/ Scheduled(t) /\ ResetExplorationCount(t)
        \/ Scheduled(t) /\ ScoreLoadTime(t)
        \/ Scheduled(t) /\ ScoreLoadBytes(t)
        \/ Scheduled(t) /\ ScoreLoadCount(t)
        \/ Scheduled(t) /\ SmoothTimeLoad(t)
        \/ Scheduled(t) /\ SmoothTimeStore(t)
        \/ Scheduled(t) /\ SmoothBytesLoad(t)
        \/ Scheduled(t) /\ SmoothBytesStore(t)
        \/ Scheduled(t) /\ SmoothCountLoad(t)
        \/ Scheduled(t) /\ SmoothCountStore(t)
        \/ Scheduled(t) /\ Publish(t)
        \/ Scheduled(t) /\ Return(t)

\* bounded runs with one thread, or with two under a coarse scheduler
SpecOverlap == InitOverlap /\ [][NextScheduled]_vars

(***************************************************************************)
(* The properties.                                                         *)
(***************************************************************************)
\* the step is taken by thread t
StepOf(t) == pc'[t] # pc[t]

\* the call of thread t is returning after it ran the reoptimizer
Reoptimized(t) == pc[t] = "return" /\ local[t].i = num_cells

\* the explore call that runs the reoptimizer is this one of its window
Window == num_explorations_before_optimize + 1

RegistrySet == { variants_func(i) : i \in Cells }

\* C1: the steps of a call that takes the exploit path (the count++ of
\* call(), the branch, the invocation of the selected kernel and the return)
\* leave every tracker, exploration_count, the threshold and selected_variant
\* as they are; count++ changes count, by one, and nothing else that is shared.
ExploitLeavesStatistics ==
    [][\A t \in Threads :
         /\ (StepOf(t) /\ (pc'[t] = "exploit" \/ pc[t] = "exploit"
                           \/ (pc[t] = "return" /\ local[t].path = "exploit")))
              => UNCHANGED shared
         /\ (StepOf(t) /\ pc[t] = "idle")
              => /\ UNCHANGED << exploration_count, exploration_probability_threshold,
                                 selected_variant, variants, cerr >>
                 /\ count' = count + 1]_vars

ExploitCallReturns ==
    \E t \in Threads :
        /\ pc[t] = "return"
        /\ local[t].path = "exploit"
        /\ reopts > 0
        /\ \E i \in Cells : variants[i].count > 1

\* C2: a call invokes at most one kernel, and when it returns, on either
\* path and after a reoptimization too, it has invoked exactly one kernel of
\* the registry, once, with the dst, src and size of the caller, and returns
\* what that kernel returned.
InvokesOneKernel ==
    \A t \in Threads :
        /\ Len(invoked[t]) <= 1
        /\ pc[t] \in Reoptimizing => Len(invoked[t]) = 1
        /\ pc[t] = "return" =>
             /\ Len(invoked[t]) = 1
             /\ invoked[t][1].func \in RegistrySet \ {NullFunc}
             /\ invoked[t][1].dst = local[t].dst
             /\ invoked[t][1].src = local[t].src
             /\ invoked[t][1].size = local[t].size
             /\ local[t].size = run.size
             /\ local[t].dst \in run.buffers
             /\ local[t].returned = invoked[t][1].ret

ReoptimizingCallReturns ==
    \E t \in Threads :
        /\ Reoptimized(t)
        /\ local[t].path = "explore"
        /\ local[t].returned = local[t].dst
        /\ invoked[t][1].func # selected_variant

\* C3: under every interleaving of one or two callers selected_variant is
\* the func of a registry entry, never null; it is the func of entry 0 until
\* a reoptimization publishes; and the kernel an exploit call has invoked is
\* a func of the registry.
SelectedIsRegistered ==
    /\ selected_variant \in RegistrySet \ {NullFunc}
    /\ cerr = 0 => selected_variant = variants_func(0)
    /\ \A t \in Threads :
         (pc[t] = "return" /\ local[t].path = "exploit")
            => invoked[t][1].func \in RegistrySet \ {NullFunc}

ConcurrentExploitOfPublished ==
    /\ run.threads = Threads
    /\ \E t \in Threads :
         /\ pc[t] = "return"
         /\ local[t].path = "exploit"
         /\ invoked[t][1].func = selected_variant
         /\ selected_variant # variants_func(0)
         /\ \E u \in Threads \ {t} : pc[u] # "idle"

\* x <= y for two scores that are numbers
ScoreAtMost(x, y) == x.kind = "num" /\ y.kind = "num" /\ ~ScoreLess(y, x)

SnapScore(i) == score(snap[i].time, snap[i].bytes, snap[i].count)

\* C4: in a single-threaded run, when the call that reoptimized returns,
\* selected_variant is the func of an entry whose score, computed from the
\* tracker as it was before the decay, is the minimum of the scores of all
\* entries.
SelectsMinimumScore ==
    \A t \in Threads :
        Reoptimized(t) =>
            \E i \in Cells :
                /\ selected_variant = variants_func(i)
                /\ \A j \in Cells : ScoreAtMost(SnapScore(i), SnapScore(j))

\* the run has kernel A in one cell and kernel B in the others
IsAB == \E p \in Cells : run.rates = RatesAB(p) /\ run.ticks = TicksAt(run.rates, run.size)

PositionOfA == CHOOSE p \in Cells : run.rates[p] = Rate(1, 1)

\* C5, as stated: with kernel A at 1 cycle per byte and kernel B at 4, after
\* one reoptimization selected_variant is A, in whichever cell A is.
SelectsA ==
    \A t \in Threads :
        (IsAB /\ Reoptimized(t) /\ reopts = 1)
            => selected_variant = variants_func(PositionOfA)

\* C5, amended: with kernel A at 1 cycle per byte and kernel B at 4, every
\* sample has time >= size and is rejected, the trackers are untouched when
\* the first reoptimization starts, and selected_variant is the func of
\* entry 0 throughout, which is A only when A is in cell 0.
SelectsEntryZeroForAB ==
    IsAB =>
        /\ selected_variant = variants_func(0)
        /\ reopts <= 1 => \A i \in Cells : snap[i] = InitTracker
        /\ \A t \in Threads : pc[t] \notin {"rec_count", "rec_bytes", "rec_time"}

ReoptimizedWithAElsewhere ==
    /\ IsAB
    /\ PositionOfA # 0
    /\ reopts = 1
    /\ cerr = variants_kind(0)
    /\ \E t \in Threads : Reoptimized(t)

\* the ghost counters have not reached their caps
Counted == reopts < MaxReopts /\ explored < run.limit

\* C6, as stated: single-threaded, the reoptimizer runs in the 256th explore
\* call of the window, the one that brings exploration_count to 256, once
\* per window, and exploration_count is 0 when that call returns.
ReoptimizesAt256th ==
    Counted =>
        /\ num_explorations_before_optimize * reopts <= explored
        /\ explored <= num_explorations_before_optimize * (reopts + 1)
        /\ \A t \in run.threads :
             /\ pc[t] \in Reoptimizing \ {"thr_load"} =>
                  /\ explored = num_explorations_before_optimize * reopts
                  /\ local[t].current_exploration_count + 1 = num_explorations_before_optimize
             /\ Reoptimized(t) => exploration_count = 0

\* C6, amended: single-threaded, the reoptimizer runs in the 257th explore
\* call of the window, the one that reads exploration_count = 256 and
\* brings it to 257, once per window, and exploration_count is 0 when that
\* call returns.
ReoptimizesAt257th ==
    Counted =>
        /\ Window * reopts <= explored
        /\ explored <= Window * (reopts + 1)
        /\ \A t \in run.threads :
             /\ pc[t] \in Reoptimizing \ {"thr_load"} =>
                  /\ explored = Window * reopts
                  /\ local[t].current_exploration_count = num_explorations_before_optimize
             /\ pc[t] = "thr_load" =>
                  /\ explored = Window * (reopts + 1)
                  /\ exploration_count = Window
             /\ pc[t] \notin Reoptimizing /\ ~Reoptimized(t) =>
                  exploration_count = explored - Window * reopts
             /\ Reoptimized(t) =>
                  /\ exploration_count = 0
                  /\ explored = Window * reopts

SecondWindowReoptimized ==
    /\ reopts = 2
    /\ explored = 2 * Window
    /\ exploration_count = 0
    /\ \E t \in Threads : Reoptimized(t)

ExplorationNeverCeases ==
    /\ [](/\ \E r \in 0 .. (probability_distribution_buckets - 1) :
               ~IsExploit(r, exploration_probability_threshold)
          /\ exploits < probability_distribution_buckets
          /\ exploration_count <= Window)
    /\ []<>(\E t \in Threads : pc[t] = "explore")
    /\ []<>(\E t \in Threads : pc[t] = "publish")

ExploresAfterThresholdRaised ==
    /\ ~run.bounded
    /\ reopts = 2
    /\ exploration_probability_threshold = 142
    /\ exploits = 0
    /\ \E t \in Threads : pc[t] = "publish"

\* C9: whenever the reoptimizer has evaluated score() on a tracker, the
\* bytes and the count it loaded are positive.
ScoreIsDefined ==
    \A t \in Threads :
        pc[t] = "smooth_time_load" =>
            /\ local[t].score.b > 0
            /\ local[t].score.c > 0

Recording == {"rec_count", "rec_bytes", "rec_time"}

\* the frame of the record block: nothing but the tracker of the chosen
\* variant changes, and of it the count by 1, the bytes by size
RecordFrame(t) ==
    LET v == local[t].variant
    IN  /\ (StepOf(t) /\ pc[t] = "measure") =>
             /\ variants' = variants
             /\ pc'[t] \in Recording <=> U32Less(local'[t].time, local[t].size)
        /\ (StepOf(t) /\ pc[t] = "rec_count") =>
             variants' = [variants EXCEPT ![v].count = @ + 1]
        /\ (StepOf(t) /\ pc[t] = "rec_bytes") =>
             /\ variants' = [variants EXCEPT ![v].bytes = @ + local[t].size]
             /\ variants'[v].bytes > variants[v].bytes

\* C10, as stated: on an explore call with elapsed e and size s, if e < s
\* the time, bytes and count of the tracker of the chosen variant strictly
\* increase, by e, s and 1, and no other tracker changes; if e >= s no
\* tracker changes.
RecordStrictlyIncreases ==
    [][\A t \in Threads :
         /\ RecordFrame(t)
         /\ (StepOf(t) /\ pc[t] = "rec_time") =>
              /\ variants' = [variants EXCEPT
                                ![local[t].variant].time = @ + U32Int(local[t].time)]
              /\ variants'[local[t].variant].time > variants[local[t].variant].time]_vars

\* C10, amended: if e < s the bytes and the count of the tracker of the
\* chosen variant strictly increase, by s and 1, its time increases by e,
\* which is no increase when e = 0, and no other tracker changes; if e >= s
\* no tracker changes.
RecordAddsSample ==
    [][\A t \in Threads :
         /\ RecordFrame(t)
         /\ (StepOf(t) /\ pc[t] = "rec_time") =>
              /\ variants' = [variants EXCEPT
                                ![local[t].variant].time = @ + U32Int(local[t].time)]
              /\ variants'[local[t].variant].time >= variants[local[t].variant].time
              /\ (variants'[local[t].variant].time = variants[local[t].variant].time)
                   <=> (U32Int(local[t].time) = 0)]_vars

RecordedZeroTicks ==
    \E t \in Threads :
        /\ pc[t] = "return"
        /\ local[t].path = "explore"
        /\ local[t].time = <<0, 0>>
        /\ variants[local[t].variant].count > 0
        /\ variants[local[t].variant].bytes >= local[t].size

\* (t, b, c) -> (1 + floor(t/2), 1 + floor(b/2), 1 + floor(c/2))
Decayed(tr) ==
    [time |-> 1 + tr.time \div 2, bytes |-> 1 + tr.bytes \div 2, count |-> 1 + tr.count \div 2]

\* C11: in a single-threaded run the loop of a reoptimization has decayed the
\* trackers below its index once and has not touched the others, so that
\* when the call returns every tracker is the decay of what it was when the
\* reoptimization started; a decayed field is at least 1.
DecaysEveryTrackerOnce ==
    \A t \in run.threads :
        /\ (pc[t] \in {"score_time", "publish"} \/ Reoptimized(t)) =>
             \A j \in Cells :
                 variants[j] = IF j < local[t].i THEN Decayed(snap[j]) ELSE snap[j]
        /\ Reoptimized(t) =>
             \A j \in Cells :
                 variants[j].time >= 1 /\ variants[j].bytes >= 1 /\ variants[j].count >= 1

DecayedSampledTrackers ==
    \E t \in Threads :
        /\ Reoptimized(t)
        /\ reopts = 2
        /\ \E j \in Cells : snap[j].count > 2 /\ variants[j].count = 1 + snap[j].count \div 2
        /\ \E j \in Cells : snap[j] = [time |-> 1, bytes |-> 1, count |-> 1]

\* a thread has incremented the count of tracker i and not yet added the time
MidRecord(i) ==
    \E t \in run.threads : pc[t] \in {"rec_bytes", "rec_time"} /\ local[t].variant = i

\* UInt32 time = time2 - time1 is 0 for the kernel of cell i
MeasuresZero(i) == run.ticks[i][2] = 0 /\ run.ticks[i][3] = 0

\* no smooth() has run on tracker i
NotDecayedYet(i) ==
    \/ reopts = 0
    \/ reopts = 1 /\ \E t \in run.threads : pc[t] \in Reoptimizing /\ local[t].i <= i

\* C12, as stated: a tracker that has been used (its count is positive and
\* no record is under way on it) has time >= 1, bytes >= 1 and count >= 1.
FieldsPositiveAfterUse ==
    \A i \in Cells :
        (variants[i].count >= 1 /\ ~MidRecord(i)) =>
            variants[i].time >= 1 /\ variants[i].bytes >= 1

\* C12, amended: a tracker that has been used has bytes >= 1 and count >= 1;
\* its time is >= 1 too, unless no decay has run on it yet and every sample
\* of its kernel measured 0 ticks.
BytesAndCountPositiveAfterUse ==
    \A i \in Cells :
        (variants[i].count >= 1 /\ ~MidRecord(i)) =>
            /\ variants[i].bytes >= 1
            /\ variants[i].time >= 1 \/ (NotDecayedYet(i) /\ MeasuresZero(i))
            /\ variants[i].time = 0 => variants[i].bytes = variants[i].count * run.size

TwoRecordsOfZeroTicks ==
    \E i \in Cells :
        /\ ~MidRecord(i)
        /\ variants[i].count = 2
        /\ variants[i].bytes = 2 * run.size
        /\ variants[i].time = 0

\* no reoptimization has stored a threshold yet
BeforeFirstStore ==
    \/ reopts = 0
    \/ reopts = 1 /\ \E t \in Threads : pc[t] = "thr_store"

ThreadStep(t) ==
    \/ Decide(t) \/ Exploit(t) \/ ExploreCount(t) \/ Measure(t)
    \/ RecordCount(t) \/ RecordBytes(t) \/ RecordTime(t)
    \/ LoadThreshold(t) \/ StoreThreshold(t) \/ ResetExplorationCount(t)
    \/ ScoreLoadTime(t) \/ ScoreLoadBytes(t) \/ ScoreLoadCount(t)
    \/ SmoothTimeLoad(t) \/ SmoothTimeStore(t) \/ SmoothBytesLoad(t)
    \/ SmoothBytesStore(t) \/ SmoothCountLoad(t) \/ SmoothCountStore(t)
    \/ Publish(t) \/ Return(t)

\* the operations of one iteration of the loop of the reoptimizer, in order
LoopPcs ==
    << "score_time", "score_bytes", "score_count", "smooth_time_load", "smooth_time_store",
       "smooth_bytes_load", "smooth_bytes_store", "smooth_count_load", "smooth_count_store" >>

\* the operations before the loop, the last first
BeforeLoopPcs ==
    << "ec_reset", "thr_store", "thr_load", "rec_time", "rec_bytes", "rec_count",
       "measure", "explore", "decide" >>

IndexIn(seq, p) == CHOOSE k \in 1 .. Len(seq) : seq[k] = p

\* the steps thread t has left, at most, until its call is over
StepsLeft(t) ==
    LET p == pc[t]
    IN  CASE p = "idle" -> 0
          [] p = "return" -> 1
          [] p \in {"publish", "exploit"} -> 2
          [] p \in {LoopPcs[k] : k \in 1 .. Len(LoopPcs)} ->
               3 + Len(LoopPcs) * (num_cells - local[t].i) - IndexIn(LoopPcs, p)
          [] OTHER -> 2 + Len(LoopPcs) * num_cells + IndexIn(BeforeLoopPcs, p)

\* the steps of the longest call, count++ included
LongestCall == 3 + Len(LoopPcs) * num_cells + Len(BeforeLoopPcs)

ThreeKernelsAtRest ==
    /\ run.rates = RatesThree
    /\ \A t \in run.threads : pc[t] = "idle"
    /\ cerr # 0

SelectsCheapestOfThree == ThreeKernelsAtRest => selected_variant = variants_func(0)

(***************************************************************************)
(* C16: when several trackers share the minimum score at a                 *)
(* reoptimization, the entry published as selected_variant is the one of   *)
(* the lowest index among them.  The scores are those of the trackers as   *)
(* they were when the reoptimization started; the minimum is taken over    *)
(* the scores that are numbers below the initial best_score.               *)
(***************************************************************************)
MinimumCells ==
    { i \in Cells :
        /\ SnapScore(i).kind = "num"
        /\ ScoreLess(SnapScore(i), ConstScore(InitialBestScore))
        /\ \A j \in Cells : ~ScoreLess(SnapScore(j), SnapScore(i)) }

LowestOf(S) == CHOOSE i \in S : \A j \in S : i <= j

TiesSelectLowestIndex ==
    \A t \in run.threads :
        (Reoptimized(t) /\ Cardinality(MinimumCells) >= 2) =>
            /\ local[t].best_variant = LowestOf(MinimumCells)
            /\ selected_variant = variants_func(LowestOf(MinimumCells))

TiedMeasurementsSelectFirst ==
    \E t \in run.threads :
        /\ Reoptimized(t)
        /\ run.rates = RatesTied
        /\ MinimumCells = {5, 9}
        /\ snap[5] = snap[9]
        /\ snap[5].count > 1
        /\ selected_variant = variants_func(5)

(***************************************************************************)
(* C17: with one caller or two, exploration_probability_threshold is 0     *)
(* exactly until the first reoptimization stores it, and once it is above  *)
(* 0 no step brings it back to 0.                                          *)
(***************************************************************************)
WarmingEndsAtFirstReoptimization ==
    /\ [](exploration_probability_threshold = 0 <=> BeforeFirstStore)
    /\ [][exploration_probability_threshold > 0 =>
             exploration_probability_threshold' > 0]_vars

SteadyCallExploits ==
    /\ run.threads = Threads
    /\ reopts = 1
    /\ exploration_probability_threshold = NewThreshold(0)
    /\ \E t \in Threads : pc[t] = "exploit" /\ local[t].current_count = Window
    /\ \E t \in Threads : pc[t] \in Reoptimizing \ {"thr_load", "thr_store"}

(***************************************************************************)
(* C18: the reoptimization (threshold, exploration_count, scores, decay,   *)
(* selected_variant) is one atomic unit under concurrent callers: at most  *)
(* one thread is inside the reoptimization block at any time, and while a  *)
(* thread is inside it, past its first statement, no step of another       *)
(* thread changes a tracker.                                               *)
(***************************************************************************)
InsideReoptimization(t) == pc[t] \in Reoptimizing \ {"thr_load"}

ReoptimizationIsAtomic ==
    /\ [](Cardinality({t \in Threads : pc[t] \in Reoptimizing}) <= 1)
    /\ [][\A t \in Threads :
             InsideReoptimization(t) =>
                 \A u \in Threads \ {t} : StepOf(u) => variants' = variants]_vars

(***************************************************************************)
(* C19, as stated: on an explore call the index of the kernel is the hash  *)
(* (times 0xff51afd7ed558ccd modulo 2^64, xor itself shifted right by 33)  *)
(* of the new, incremented value of exploration_count, modulo 16.          *)
(***************************************************************************)
Chosen(t) == pc[t] = "measure"

HashesNewCount ==
    \A t \in run.threads :
        Chosen(t) =>
            /\ exploration_count = local[t].current_exploration_count + 1
            /\ local[t].variant = HashIndex(exploration_count)

\* the indices of the hash for the values 0, 1, .. 15
FirstIndices == <<0, 6, 13, 4, 11, 10, 9, 8, 7, 14, 5, 12, 3, 2, 1, 0>>

\* C19, amended: on an explore call of a single-threaded run the index is
\* the hash of the value exploration_count had before the increment (the
\* value of exploration_count++), modulo 16: it is in 0..15, it is a
\* function of that value, and for the values 0..15 it is 0 6 13 4 11 10 9
\* 8 7 14 5 12 3 2 1 0.
HashesOldCount ==
    \A t \in run.threads :
        Chosen(t) =>
            /\ exploration_count = local[t].current_exploration_count + 1
            /\ local[t].variant = HashIndex(local[t].current_exploration_count)
            /\ local[t].variant \in Cells
            /\ local[t].current_exploration_count < Len(FirstIndices) =>
                   local[t].variant = FirstIndices[local[t].current_exploration_count + 1]

SecondExploreChoosesSix ==
    \E t \in run.threads :
        /\ Chosen(t)
        /\ exploration_count = 2
        /\ local[t].variant = 6
        /\ HashIndex(exploration_count) = 13

(***************************************************************************)
(* C20: in a single-threaded run every index 0..15 is chosen at least once *)
(* among the explore calls of one window (the values 0..256 of             *)
(* exploration_count), so when a reoptimization starts every cell has been *)
(* chosen since the previous one: the first sixteen explore calls of a     *)
(* window choose the cells of FirstIndices, the seventeenth chooses the    *)
(* cell still missing, 15.                                                 *)
(***************************************************************************)
EveryIndexChosenInWindow ==
    \A t \in run.threads :
        /\ pc[t] = "thr_load" => visited = Cells
        /\ Chosen(t) =>
              /\ local[t].variant \in visited
              /\ visited = IF local[t].current_exploration_count < Len(FirstIndices)
                           THEN { FirstIndices[n + 1] :
                                    n \in 0 .. local[t].current_exploration_count }
                           ELSE Cells

SecondWindowVisitsAll ==
    \E t \in run.threads :
        /\ pc[t] = "thr_load"
        /\ reopts = 1
        /\ local[t].current_exploration_count = num_explorations_before_optimize
        /\ visited = Cells

(***************************************************************************)
(* C21, as stated: from any values of time, bytes and count, repeated      *)
(* decay with no record in between brings every field to 1 (here within    *)
(* MaxDecays decays, for values up to MaxField), and a field that is 1     *)
(* stays 1.                                                                *)
(***************************************************************************)
Fields == {"time", "bytes", "count"}

DecayReachesOne ==
    /\ [](\A t \in run.threads :
             (pc[t] = "smooth" /\ reopts = MaxDecays) =>
                 \A f \in Fields : variants[local[t].variant][f] = 1)
    /\ [][\A i \in Cells, f \in Fields :
             variants[i][f] = 1 => variants'[i][f] = 1]_vars

\* C21, amended: repeated decay with no record in between brings a field
\* that starts at 0 or 1 to 1 and a field that starts at 2 or more to 2
\* (1 + 2 / 2 = 2), within MaxDecays decays for values up to MaxField; a
\* field that is 1 stays 1, a field that is 2 stays 2, no decay increases a
\* field that is 2 or more, and every decayed field is at least 1.
DecayReachesOneOrTwo ==
    /\ [](\A t \in run.threads :
             pc[t] = "smooth" =>
                 \A f \in Fields :
                     /\ reopts = MaxDecays =>
                            variants[local[t].variant][f] =
                                IF snap[local[t].variant][f] <= 1 THEN 1 ELSE 2
                     /\ reopts >= 1 => variants[local[t].variant][f] >= 1)
    /\ [][\A i \in Cells, f \in Fields :
             /\ variants[i][f] \in {1, 2} => variants'[i][f] = variants[i][f]
             /\ variants[i][f] > 2 => variants'[i][f] < variants[i][f]]_vars

DecaySettlesAtTwo ==
    \E t \in run.threads :
        /\ pc[t] = "smooth"
        /\ reopts = MaxDecays
        /\ snap[local[t].variant] = [time |-> MaxField, bytes |-> 1, count |-> 0]
        /\ variants[local[t].variant] = [time |-> 2, bytes |-> 1, count |-> 1]

(***************************************************************************)
(* C22: with one caller or two, count is incremented by 1 by the first     *)
(* step of every call and changed by no other step; exploration_count is   *)
(* incremented by 1 by the first step of explore() in every call that took *)
(* the explore path, changed by no step of a call that took the exploit    *)
(* path, and otherwise only reset to 0 by a reoptimization; no increment   *)
(* is lost: count is the number of calls started, so with no call in       *)
(* progress it is the number of calls completed.                           *)
(***************************************************************************)
CountsEveryCallOnce ==
    /\ [](run.bounded => count = calls)
    /\ [][\A t \in Threads :
             StepOf(t) =>
                 /\ count' = IF pc[t] = "idle" THEN count + 1 ELSE count
                 /\ exploration_count' =
                        IF pc[t] = "explore" THEN exploration_count + 1
                        ELSE IF pc[t] = "ec_reset" THEN 0
                        ELSE exploration_count
                 /\ pc[t] = "explore" => local[t].path = "explore"
                 /\ local[t].path = "exploit" => exploration_count' = exploration_count
                 /\ pc[t] = "decide" => pc'[t] \in {"explore", "exploit"}
                 /\ pc[t] = "exploit" => pc'[t] = "return"]_vars

AllCallsOfTwoCallersCounted ==
    /\ run.threads = Threads
    /\ \A t \in Threads : pc[t] = "idle"
    /\ count = MaxCallsConc
    /\ calls = MaxCallsConc
    /\ reopts = 1
    /\ exploration_count < calls - Window

(***************************************************************************)
(* C23: with one caller or two, exploration_probability_threshold is       *)
(* written only by the threshold store of a reoptimization and             *)
(* selected_variant only by its publishing store; only a call that read    *)
(* exploration_count = 256 is inside a reoptimization; and a step of a     *)
(* call outside the reoptimization block changes neither of the two, and   *)
(* changes no tracker but, in the record block of an explore call, the one *)
(* of the kernel that the call timed.                                      *)
(***************************************************************************)
WritesOnlyInReoptimization ==
    /\ [](\A t \in Threads :
             pc[t] \in Reoptimizing =>
                 /\ local[t].path = "explore"
                 /\ local[t].current_exploration_count = num_explorations_before_optimize)
    /\ [][\A t \in Threads :
             StepOf(t) =>
                 /\ exploration_probability_threshold' # exploration_probability_threshold
                        => pc[t] = "thr_store"
                 /\ selected_variant' # selected_variant => pc[t] = "publish"
                 /\ pc[t] \notin Reoptimizing =>
                        /\ exploration_probability_threshold' = exploration_probability_threshold
                        /\ selected_variant' = selected_variant
                        /\ \A i \in Cells :
                               variants'[i] # variants[i] =>
                                   /\ pc[t] \in Recording
                                   /\ local[t].path = "explore"
                                   /\ i = local[t].variant
                                   /\ invoked[t] # <<>>
                                   /\ invoked[t][1].func = variants_func(i)]_vars

RecordsBesideReoptimization ==
    \E t \in Threads, u \in Threads :
        /\ t # u
        /\ pc[t] = "rec_time"
        /\ variants[local[t].variant].count > 1
        /\ local[t].current_exploration_count # num_explorations_before_optimize
        /\ pc[u] \in Reoptimizing \ {"thr_load", "thr_store"}
        /\ exploration_probability_threshold > 0

(***************************************************************************)
(* C24: in a single-threaded run the calls have consecutive values of      *)
(* count, each call takes the exploit path exactly if its count modulo 256 *)
(* is below the threshold, exactly T of the 256 residues are below a       *)
(* threshold T, and whenever 256 consecutive calls have decided under the  *)
(* same threshold T, exactly T of them took the exploit path and 256 - T   *)
(* the explore path.                                                       *)
(***************************************************************************)
Residues == 0 .. (probability_distribution_buckets - 1)

ExploitsTOutOf256 ==
    /\ [](/\ tally.n <= probability_distribution_buckets
          /\ tally.x <= tally.n
          /\ tally.n = probability_distribution_buckets =>
                 /\ tally.x = exploration_probability_threshold
                 /\ tally.n - tally.x =
                        probability_distribution_buckets - exploration_probability_threshold
          /\ Cardinality({ r \in Residues : IsExploit(r, exploration_probability_threshold) })
                 = exploration_probability_threshold
          /\ \A t \in run.threads :
                 pc[t] = "decide" => local[t].current_count = calls - 1)
    /\ [][\A t \in run.threads :
             (StepOf(t) /\ pc[t] = "decide") =>
                 /\ pc'[t] = "exploit" <=>
                        local[t].current_count % probability_distribution_buckets
                            < exploration_probability_threshold
                 /\ pc'[t] = "explore" <=>
                        local[t].current_count % probability_distribution_buckets
                            >= exploration_probability_threshold]_vars

RoundUnderRaisedThreshold ==
    /\ tally.n = probability_distribution_buckets
    /\ exploration_probability_threshold = NewThreshold(0)
    /\ tally.x = NewThreshold(0)
    /\ reopts = 1

(***************************************************************************)
(* C25, as stated: a timing whose two reads of the low 32 bits of the      *)
(* counter span a wraparound yields an elapsed value below the true number *)
(* of ticks between the reads.                                             *)
(***************************************************************************)
\* the true ticks the kernel chosen by thread t takes
TrueTicks(t) == run.ticks[local[t].variant]

\* the low 32 bits wrap between a read of v and a read d ticks later
SpansWrap(v, d) ==
    LET lo == v[2] + d[3]
        hi == v[1] + d[2] + (lo \div Half)
    IN  d[1] + (hi \div Half) >= 1

\* the UInt32 e is below the tick count d
BelowTicks(e, d) == d[1] > 0 \/ e[1] < d[2] \/ (e[1] = d[2] /\ e[2] < d[3])

Timed(t) == StepOf(t) /\ pc[t] = "measure"

WrapUndercounts ==
    [][\A t \in run.threads, time1 \in run.tsc :
         (Timed(t) /\ run.tsc = {time1} /\ SpansWrap(time1, TrueTicks(t))) =>
             BelowTicks(local'[t].time, TrueTicks(t))]_vars

\* C25, amended: the elapsed value is the true number of ticks modulo 2^32,
\* whatever the first read was: it equals the true number of ticks when that
\* is below 2^32, also when the two reads span a wraparound, and it is
\* below the true number exactly when 2^32 ticks or more lie between the
\* reads.
ElapsedIsTicksModulo ==
    [][\A t \in run.threads :
         Timed(t) =>
             /\ local'[t].time = <<TrueTicks(t)[2], TrueTicks(t)[3]>>
             /\ BelowTicks(local'[t].time, TrueTicks(t)) <=> TrueTicks(t)[1] >= 1
             /\ \A time1 \in run.tsc :
                    local'[t].time = Sub32(Add32(time1, TrueTicks(t)), time1)]_vars

WrapMeasuredExactly ==
    \E t \in run.threads :
        /\ run.tsc = {TscBeforeWrap}
        /\ pc[t] \in Recording
        /\ SpansWrap(TscBeforeWrap, TrueTicks(t))
        /\ TrueTicks(t)[1] = 0
        /\ local[t].time = <<TrueTicks(t)[2], TrueTicks(t)[3]>>
        /\ local[t].time[2] > 536

(***************************************************************************)
(* C26: memcpy_selftuned enters the dispatcher only for size >= 30000: a   *)
(* call with size < 30000 changes none of call_count, exploration_count,   *)
(* the threshold, selected_kernel or any tracker, and every call with      *)
(* size >= 30000 makes exactly one dispatcher call.                        *)
(***************************************************************************)
\* thread t enters memcpy_selftuned
Entered(t) == StepOf(t) /\ pc[t] = "idle"

\* thread t is inside a memcpy_selftuned call of a size below the threshold
Inline(t) == pc[t] # "idle" /\ local[t].size < SelfTunedThreshold

DispatcherOnlyFromThreshold ==
    [][\A t \in run.threads :
         /\ (Entered(t) /\ local'[t].size < SelfTunedThreshold) =>
                /\ UNCHANGED << shared, calls, explored, exploits, invoked >>
                /\ pc'[t] = "return"
                /\ local'[t].returned = local'[t].dst
         /\ (StepOf(t) /\ Inline(t)) =>
                /\ UNCHANGED << shared, calls, explored, exploits, invoked >>
                /\ pc'[t] = "idle"
         /\ (Entered(t) /\ local'[t].size >= SelfTunedThreshold) =>
                /\ pc'[t] = "decide"
                /\ count' = count + 1
                /\ calls' = calls + 1
                /\ local'[t].current_count = count
         /\ (StepOf(t) /\ pc[t] # "idle") =>
                /\ count' = count
                /\ calls' = calls]_vars

SmallCopyBesideReoptimization ==
    /\ pc[1] = "return"
    /\ local[1].size = SelfTunedThreshold - 1
    /\ local[1].path = "inline"
    /\ pc[2] = "score_time"
    /\ local[2].size = SelfTunedThreshold
    /\ count = num_explorations_before_optimize + 1

(***************************************************************************)
(* C27: for every tracker time <= bytes holds in every reachable state,    *)
(* under any interleaving of concurrent explore calls and reoptimizations. *)
(***************************************************************************)
TimeAtMostBytes == \A i \in Cells : variants[i].time <= variants[i].bytes

(***************************************************************************)
(* C28: a reoptimization at which every tracker is still {0, 0, 0}         *)
(* completes and publishes registry entry 0; and a tracker that is still   *)
(* {0, 0, 0} is never selected in preference to a tracker that has an      *)
(* accepted sample (single-threaded runs; the trackers are those the       *)
(* reoptimization found, before its decay).                                *)
(***************************************************************************)
\* tracker i was still {0, 0, 0} when the reoptimization began
Unsampled(i) == snap[i] = InitTracker

\* tracker i had a sample (every accepted sample counts)
Sampled(i) == snap[i].count > 0

Publishes(t) == StepOf(t) /\ pc[t] = "publish"

ThresholdChain == << 0, 85, 142, 180, 205, 222, 233, 240, 245, 248, 250, 252, 253, 254 >>

ThresholdAfter(n) ==
    IF n < Len(ThresholdChain) THEN ThresholdChain[n + 1]
                               ELSE ThresholdChain[Len(ThresholdChain)]

HighestThreshold == probability_distribution_buckets - 2

\* the residues of the call counter that explore under threshold T
Exploring(T) == { r \in 0 .. (probability_distribution_buckets - 1) : ~IsExploit(r, T) }

ThresholdClimbsTo254 ==
    /\ [](/\ exploration_probability_threshold = ThresholdAfter(reopts)
          /\ exploration_probability_threshold <= HighestThreshold
          /\ Cardinality(Exploring(exploration_probability_threshold)) >= 2
          /\ \A t \in run.threads :
                (pc[t] \in {"exploit", "explore"}
                   /\ local[t].current_count >= HighestThreshold) => pc[t] = "explore")
    /\ [][reopts' # reopts =>
            /\ exploration_probability_threshold < HighestThreshold =>
                   exploration_probability_threshold' > exploration_probability_threshold
            /\ exploration_probability_threshold = HighestThreshold =>
                   exploration_probability_threshold' = HighestThreshold]_vars

ThresholdRestsAt254 ==
    /\ reopts = MaxThresholdSteps
    /\ exploration_probability_threshold = HighestThreshold
    /\ pc[1] = "explore"
    /\ local[1].current_count = probability_distribution_buckets - 1

(***************************************************************************)
(* C30: under concurrent callers, once no reoptimization is in progress,   *)
(* selected_variant is the kernel chosen by the reoptimization that was    *)
(* triggered last: one triggered earlier never overwrites the choice       *)
(* published by one triggered later.                                       *)
(***************************************************************************)
\* the reoptimization of thread u was triggered after that of thread t.  Both
\* threads are still in the calls that reoptimized; 256 explore calls lie
\* between the reset of one reoptimization and the trigger of the next, so
\* the call that reoptimized later took its current_count later.
TriggeredLater(u, t) == local[u].current_count > local[t].current_count

LatestReoptimizationSelects ==
    \A t \in run.threads, u \in run.threads :
        (Reoptimized(t) /\ Reoptimized(u) /\ TriggeredLater(u, t)) =>
            selected_variant = variants_func(local[u].best_variant)

====
